---- MODULE Spec2Model ----
(***************************************************************************)
(* The colour-fill animation of source/main.cpp: the globals sphere,       *)
(* changed_indeces, is_changing_color, selected_color, prev_color and      *)
(* color, the colour handling of the main loop and the four draw blocks of *)
(* sceneRender.  The transformation matrices and the GL/EGL calls carry no *)
(* state the animation reads and are left out.                             *)
(*                                                                         *)
(* The source draws every index as rand() % 240 and compares the size of   *)
(* changed_indeces with sizeof(sphere) / sizeof(Vertex) = 240 * 3.  The    *)
(* model keeps both numbers and their ratio, scaled down: Triangles stands *)
(* for 240, the mesh has VerticesPerTriangle * Triangles vertices.         *)
(***************************************************************************)
EXTENDS Integers, FiniteSets, Sequences, TLC

\* The number of triangles of the mesh (240 in the source), scaled down.
Triangles == 5

\* glDrawArrays(GL_TRIANGLES, 0, 240 * 3): three vertices per triangle.
VerticesPerTriangle == 3

\* sizeof(sphere) / sizeof(Vertex): the number of vertices of the mesh.
N == Triangles * VerticesPerTriangle

\* The modulus of every rand() % 240 of sceneRender.
RandModulus == Triangles

\* The four copies of the draw block in sceneRender.
Draws == 1 .. 4

Indices == 0 .. (N - 1)

\* The indices below the number of triangles.
TriangleIndices == 0 .. (Triangles - 1)

\* The number of sceneRender calls that recolour N vertices, four at a time
\* (180 for N = 720).
FramesToFill == (N + Cardinality(Draws) - 1) \div Cardinality(Draws)

\* A vertex colour is the one sphere.h gives the vertex ("init") or one of the
\* three targets: "red" (1,0,0), "green" (0,1,0), "blue" (0,0,1).

VARIABLES
    sphere,             \* Vertex sphere[]: index -> [position, color]
    changed_indeces,    \* std::set<int> changed_indeces
    is_changing_color,  \* static bool is_changing_color
    selected_color,     \* static int selected_color
    prev_color,         \* static int prev_color
    color,              \* static glm::vec3 color
    pc,                 \* where the main loop stands
    draw,               \* which of the four draw blocks sceneRender is in
    i,                  \* the local int i of the draw block (-1: out of scope)
    calls,              \* sceneRender calls returned since the last clear
    sphere_at_call,     \* sphere as it was when sceneRender was entered
    changed_at_call,    \* changed_indeces as it was when sceneRender was entered
    completed,          \* the else of the fourth block has run in this call
    lag                 \* calls returned with the set full and that else not run

vars == <<sphere, changed_indeces, is_changing_color, selected_color, prev_color,
          color, pc, draw, i, calls, sphere_at_call, changed_at_call, completed, lag>>

NoIndex == 0 - 1

\* The values rand() % 240 can take.
RandValuesWholeMesh == 0 .. (N - 1)
RandValues == 0 .. (RandModulus - 1)

\* if (changed_indeces.size() < sizeof(sphere) / sizeof(Vertex))
SizeCheckAgainstTriangles(set) == Cardinality(set) < Triangles
SizeCheck(set) == Cardinality(set) < N

\* if (changed_indeces.find(i) == changed_indeces.end()) break;
AcceptsAny(idx, set) == TRUE
Accepts(idx, set) == idx \notin set

\* sphere[i].color = color;
WriteTriangle(sph, idx, c) ==
    [v \in Indices |->
        IF v \in {VerticesPerTriangle * idx + o : o \in 0 .. (VerticesPerTriangle - 1)}
        THEN [sph[v] EXCEPT !.color = c]
        ELSE sph[v]]
WriteColor(sph, idx, c) == [sph EXCEPT ![idx].color = c]

\* The directional buttons of buttons_state mapped to selected_color.
ButtonColor(buttons) ==
    IF "up" \in buttons THEN 2
    ELSE IF "down" \in buttons THEN 1
    ELSE 0

\* if (prev_color != selected_color) { ...; changed_indeces.clear(); }
ClearedSetAlways(sel, prev, set) == {}
ClearedSetForgetElse(sel, prev, set) == IF prev # sel /\ sel # 0 THEN {} ELSE set
ClearedSet(sel, prev, set) == IF prev # sel THEN {} ELSE set

\* switch(selected_color): the target colour of a selection.
ColorOf(sel) ==
    CASE sel = 0 -> "red"
      [] sel = 1 -> "green"
      [] sel = 2 -> "blue"

\* prev_color = selected_color;
KeepPrevColor(sel, prev) == prev
NextPrevColor(sel, prev) == sel

Init ==
    /\ sphere = [v \in Indices |-> [position |-> v, color |-> "init"]]
    /\ changed_indeces = {}
    /\ is_changing_color = FALSE
    /\ selected_color = 0
    /\ prev_color = 0
    /\ color = "red"
    /\ pc = "input"
    /\ draw = 1
    /\ i = NoIndex
    /\ calls = 0
    /\ sphere_at_call = [v \in Indices |-> [position |-> v, color |-> "init"]]
    /\ changed_at_call = {}
    /\ completed = FALSE
    /\ lag = 0

\* One pass of the main loop up to the call of sceneRender: the colour
\* selection from the directional buttons, the break on Plus (taken after the
\* selection and before the switch), the switch that sets color.  Left, Right
\* and Minus write the matrices only.  calls, lag, completed and the two
\* snapshots record the history the properties below speak of.
HandleInput(buttons, plus) ==
    /\ pc = "input"
    /\ selected_color' = ButtonColor(buttons)
    /\ is_changing_color' = (prev_color # selected_color')
    /\ changed_indeces' = ClearedSet(selected_color', prev_color, changed_indeces)
    /\ calls' = IF prev_color # selected_color' THEN 0 ELSE calls
    /\ IF plus
       THEN /\ pc' = "exit"
            /\ color' = color
       ELSE /\ pc' = "check"
            /\ color' = ColorOf(selected_color')
    /\ draw' = 1
    /\ sphere_at_call' = sphere
    /\ changed_at_call' = changed_indeces'
    /\ completed' = FALSE
    /\ lag' = IF calls' = 0 THEN 0 ELSE lag
    /\ UNCHANGED <<sphere, prev_color, i>>

\* Where sceneRender goes after draw block k.
AfterBlock(k) == IF k = 4 THEN "swap" ELSE "check"
NextBlock(k) == IF k = 4 THEN 1 ELSE k + 1

\* The size check at the head of draw block k, with the first
\* int i = rand() % 240 when it passes and the else of the fourth block.
CheckSize(k) ==
    /\ pc = "check"
    /\ draw = k
    /\ IF SizeCheck(changed_indeces)
       THEN /\ \E r \in RandValues : i' = r
            /\ pc' = "loop"
            /\ UNCHANGED <<draw, is_changing_color, completed>>
       ELSE /\ is_changing_color' = IF k = 4 THEN FALSE ELSE is_changing_color
            /\ completed' = IF k = 4 THEN TRUE ELSE completed
            /\ pc' = AfterBlock(k)
            /\ draw' = NextBlock(k)
            /\ i' = NoIndex
    /\ UNCHANGED <<sphere, changed_indeces, selected_color, prev_color, color,
                   calls, sphere_at_call, changed_at_call, lag>>

\* One iteration of while (true) of draw block k: i = rand() % 240; when the
\* index is not in changed_indeces the loop breaks, the vertex is recoloured
\* and the index inserted; otherwise the loop goes round.
DrawLoop(k) ==
    /\ pc = "loop"
    /\ draw = k
    /\ \E r \in RandValues :
        IF Accepts(r, changed_indeces)
        THEN /\ sphere' = WriteColor(sphere, r, color)
             /\ changed_indeces' = changed_indeces \cup {r}
             /\ pc' = AfterBlock(k)
             /\ draw' = NextBlock(k)
             /\ i' = NoIndex
        ELSE /\ i' = r
             /\ UNCHANGED <<sphere, changed_indeces, pc, draw>>
    /\ UNCHANGED <<is_changing_color, selected_color, prev_color, color,
                   calls, sphere_at_call, changed_at_call, completed, lag>>

\* sceneRender has returned: eglSwapBuffers and prev_color = selected_color.
Swap ==
    /\ pc = "swap"
    /\ prev_color' = NextPrevColor(selected_color, prev_color)
    /\ calls' = IF calls <= FramesToFill THEN calls + 1 ELSE calls
    /\ lag' = IF ~SizeCheck(changed_indeces) /\ ~completed /\ lag < 3
              THEN lag + 1 ELSE lag
    /\ pc' = "input"
    /\ UNCHANGED <<sphere, changed_indeces, is_changing_color, selected_color,
                   color, draw, i, sphere_at_call, changed_at_call, completed>>

Next ==
    \/ \E buttons \in SUBSET {"up", "down"}, plus \in BOOLEAN : HandleInput(buttons, plus)
    \/ \E k \in Draws : CheckSize(k)
    \/ \E k \in Draws : DrawLoop(k)
    \/ Swap

Spec == Init /\ [][Next]_vars

\* The main loop keeps running and rand() is fair: a draw that can be accepted
\* is accepted in the end.
FairSpec ==
    /\ Spec
    /\ WF_vars(Next)
    /\ \A k \in Draws : SF_vars(DrawLoop(k) /\ pc' # "loop")

Size == Cardinality(changed_indeces)

----------------------------------------------------------------------------
\* C1: whenever a rejection-sampling loop of sceneRender is running, rand() can
\* still produce an index that is not in changed_indeces, so the loop ends
\* under a fair generator.
C1_DrawCanSucceed ==
    pc = "loop" => \E r \in RandValues : r \notin changed_indeces

\* C2: with no reset in between, each of the first FramesToFill calls of
\* sceneRender returns, after FramesToFill calls the set holds all N indices,
\* and a further call changes neither the set nor the mesh.
C2_FillsInFramesToFill ==
    /\ (pc = "loop" /\ calls < FramesToFill) =>
            \E r \in RandValues : r \notin changed_indeces
    /\ calls = FramesToFill => Size = N
    /\ (calls >= FramesToFill /\ pc \in {"check", "loop", "swap"}) =>
            (changed_indeces = changed_at_call /\ sphere = sphere_at_call)

\* C3: the size of changed_indeces never exceeds N, and no step makes it
\* smaller except the input handling of a frame whose selected colour differs
\* from prev_color (the clear).
C3_SizeBoundedAndMonotone ==
    /\ [](Size <= N)
    /\ [][\/ Cardinality(changed_indeces') >= Size
          \/ (pc = "input" /\ selected_color' # prev_color)]_vars

\* C3 witness: a pass that was started by a clear over a recoloured mesh has
\* grown again to four indices.
C3_Witness ==
    /\ pc = "swap"
    /\ calls = 0
    /\ selected_color # prev_color
    /\ Size = Cardinality(Draws)
    /\ \E v \in Indices : sphere[v].color \notin {"init", color}

\* C4: every draw that leaves its rejection loop recolours and inserts one
\* index that was not in changed_indeces before, so the set grows by exactly
\* one.
C4_NoIndexTwice ==
    [][(pc = "loop" /\ pc' # "loop") =>
        \E r \in Indices \ changed_indeces :
            /\ changed_indeces' = changed_indeces \cup {r}
            /\ Cardinality(changed_indeces') = Size + 1
            /\ sphere'[r].color = color]_vars

\* C4 witness: a pass in which every index rand() can produce was drawn, each
\* once.
C4_Witness ==
    /\ Size = RandModulus
    /\ pc = "check"
    /\ \A v \in changed_indeces : sphere[v].color = color

\* C5: at the end of every frame, and at every point before it, every index in
\* changed_indeces belongs to a vertex that has the current target colour.
C5_ChangedHaveTargetColor ==
    \A v \in changed_indeces : sphere[v].color = color

\* C5 witness: after a change of target colour a frame has ended with a
\* non-empty set, while a vertex of the earlier pass still has the old colour.
C5_Witness ==
    /\ pc = "swap"
    /\ color # "red"
    /\ changed_indeces # {}
    /\ \E v \in Indices \ changed_indeces : sphere[v].color \notin {"init", color}

\* C6: the input handling of a frame leaves changed_indeces empty when the
\* colour selected in this frame differs from prev_color and leaves it as it
\* was when the two are equal; prev_color is the colour selected in the last
\* frame that was rendered.
C6_ClearedIffColorChanged ==
    [][/\ (pc = "input" /\ pc' # "input") =>
              IF selected_color' # prev_color
              THEN changed_indeces' = {}
              ELSE changed_indeces' = changed_indeces
       /\ pc = "swap" => prev_color' = selected_color]_vars

\* C6 witness: a frame whose selected colour differs from prev_color has
\* cleared a set that held indices.
C6_Witness ==
    /\ pc = "check"
    /\ draw = 1
    /\ selected_color # prev_color
    /\ changed_indeces = {}
    /\ Cardinality({v \in Indices : sphere[v].color = ColorOf(prev_color)}) >= 2

C9_OnlyInsertedRecoloured ==
    \A v \in Indices :
        /\ sphere[v].position = v
        /\ v \in (changed_indeces \ changed_at_call) => sphere[v].color = color
        /\ v \notin (changed_indeces \ changed_at_call) => sphere[v] = sphere_at_call[v]

\* C9 witness: in a pass after a clear, one vertex of the prior pass was drawn
\* again and took the new colour while another still has the old one.
C9_Witness ==
    /\ pc = "swap"
    /\ \E v \in changed_indeces :
            /\ sphere_at_call[v].color \notin {"init", color}
            /\ sphere[v].color = color
    /\ \E w \in Indices \ changed_indeces :
            /\ sphere[w].color \notin {"init", color}
            /\ sphere[w] = sphere_at_call[w]

\* C10: every index drawn lies below the number of triangles, changed_indeces
\* holds only such indices, the mesh keeps its N vertices, and the vertices
\* from index Triangles on keep their initial colour.
C10_OnlyTriangleIndices ==
    /\ i \in TriangleIndices \cup {NoIndex}
    /\ changed_indeces \subseteq TriangleIndices
    /\ Size <= Triangles
    /\ DOMAIN sphere = Indices
    /\ \A v \in Indices \ TriangleIndices : sphere[v].color = "init"

\* C10 witness: every index below the number of triangles is in the set and
\* recoloured, and the rest of the mesh is untouched.
C10_Witness ==
    /\ changed_indeces = TriangleIndices
    /\ \A v \in TriangleIndices : sphere[v].color # "init"
    /\ pc = "check"

====
